---- MODULE Spec2Model ----
(***************************************************************************)
(* Model of src/app.py: the multi-bot orchestration                        *)
(*   interact_between_bots -> get_responses_from_chatbots -> send_to_chatbot*)
(*                         -> evaluate_responses -> evaluate_response       *)
(*                         -> generate_clarification_question               *)
(*                         -> select_best_response                          *)
(* Texts are sequences of one-character strings.  A Python dict is a       *)
(* function; every dict of the program is filled in the order of           *)
(* CHATBOT_APIS, so its iteration order is that order restricted to its    *)
(* keys (Order).                                                            *)
(***************************************************************************)
EXTENDS Integers, Sequences, FiniteSets, TLC

VARIABLES
    entry,          \* the function the caller invoked
    pc,             \* position of the running coroutine
    bots,           \* keys of CHATBOT_APIS, in dict order
    sessions,       \* the aiohttp.ClientSession scopes that are open
    tasks,          \* gather(): per task, Pending or what it returned/raised
    wire,           \* what the network did to each bot's initial request
    responses,      \* interact_between_bots.responses
    scores,         \* interact_between_bots.scores
    clarifications, \* interact_between_bots.clarifications
    final_scores,   \* interact_between_bots.final_scores
    round,          \* which evaluate_responses call is running (1 or 2)
    acc,            \* evaluate_responses.scores, the table being built
    k,              \* loop position: calls of the current loop already done
    pending,        \* the awaited request of the sequential code, or NoReq
    sent,           \* every request handed to session.post, in order
    last,           \* the network call that completed last, and its outcome
    response,       \* generate_clarification_question.response
    result          \* what the invoked function returned or raised

vars == <<entry, pc, bots, sessions, tasks, wire, responses, scores, clarifications,
          final_scores, round, acc, k, pending, sent, last, response,
          result>>

----------------------------------------------------------------------------
(* Bounds *)

\* most bots configured in a run of interact_between_bots
MaxBots == 2

\* longest answer text, over TextChars, given to
\* generate_clarification_question on its own
MaxTextLen == 3

----------------------------------------------------------------------------
(* Configuration (config.CHATBOT_APIS, config.API_KEYS) *)

CHATBOT_APIS == <<"A", "B", "C">>

Url(bot) == <<"url", bot>>

API_KEYS(bot) == <<"key", bot>>

RECURSIVE SeqToSet(_)
SeqToSet(s) == IF s = <<>> THEN {} ELSE {Head(s)} \cup SeqToSet(Tail(s))

Keys == SeqToSet(bots)

\* iteration order of a dict whose key set is S
Order(S) == SelectSeq(bots, LAMBDA b : b \in S)

EmptyDict == [x \in {} |-> 0]

----------------------------------------------------------------------------
(* Python values: a parsed JSON body, an exception, an int *)

\* {"choices": [{"text": t}]}
Json(t) == [type |-> "json", text |-> t, exc |-> "-", num |-> 0]

\* a JSON body without choices[0].text, such as {"error": ...}
NoShape == [type |-> "noshape", text |-> <<>>, exc |-> "-", num |-> 0]

\* an exception, raised or held as a value
Raised(e) == [type |-> "exc", text |-> <<>>, exc |-> e, num |-> 0]

IntVal(n) == [type |-> "int", text |-> <<>>, exc |-> "-", num |-> n]

None == [type |-> "none", text |-> <<>>, exc |-> "-", num |-> 0]

\* isinstance(v, Exception)
IsException(v) == v.type = "exc"

\* aiohttp.ClientError and its subclasses
IsClientError(e) ==
    e \in {"ClientConnectionError", "ClientResponseError", "ContentTypeError"}

\* ValueError and its subclasses (json.JSONDecodeError is one)
IsValueError(e) == e \in {"ValueError", "JSONDecodeError"}

IsAttributeError(e) == e = "AttributeError"

\* "Error processing request."
SentinelText == <<"E", "r", "r", "o", "r", " ", "p", "r", "o", "c", "e", "s", "s", "i", "n", "g", " ", "r", "e", "q", "u", "e", "s", "t", ".">>

\* the answer send_to_chatbot returns from its except branch
Sentinel == Json(SentinelText)

----------------------------------------------------------------------------
(* The network: what one POST to a backend can come to *)

\* answer texts a backend gives to a question
AnswerTexts == {<<"o", "k", ".">>, <<"W", "h", "y", "?">>}

\* reply texts a backend gives to an evaluation prompt
ScoreReplies == {<<"5">>, <<" ", "2", "/", "5">>, <<"1", "0">>}

NetKinds == {"ok", "conn", "status", "ctype", "badjson", "noshape"}

\* ok: status 200 and a JSON body of the expected shape; conn: the transport
\* fails; status: a non-success status; ctype: status 200 and a body whose
\* Content-Type is not application/json; badjson: status 200 and a body
\* sent as application/json that does not parse; noshape: status 200 and
\* JSON without choices[0].text
Net(Bodies) ==
    {[net |-> "ok", body |-> t] : t \in Bodies}
        \cup {[net |-> n, body |-> <<>>] : n \in NetKinds \ {"ok"}}

\* async with session.post(...) as response: response.raise_for_status();
\* await response.json()
PostJson(n) ==
    CASE n.net = "conn" -> Raised("ClientConnectionError")
      [] n.net = "status" -> Raised("ClientResponseError")
      [] n.net = "ctype" -> Raised("ContentTypeError")
      [] n.net = "badjson" -> Raised("JSONDecodeError")
      [] n.net = "noshape" -> NoShape
      [] OTHER -> Json(n.body)

----------------------------------------------------------------------------
(* send_to_chatbot *)

\* try: POST, raise_for_status, json(); except aiohttp.ClientError: sentinel.
\* Any other exception leaves the function.
send_to_chatbot(n) ==
    LET r == PostJson(n)
    IN  IF IsException(r) /\ IsClientError(r.exc) THEN Sentinel ELSE r

----------------------------------------------------------------------------
(* evaluate_response *)

Digits == {"0", "1", "2", "3", "4", "5", "6", "7", "8", "9"}

Letters == {"a", "b", "c", "d", "e", "f", "g", "h", "i", "j", "k", "l", "m",
            "n", "o", "p", "q", "r", "s", "t", "u", "v", "w", "x", "y", "z",
            "A", "B", "C", "D", "E", "F", "G", "H", "I", "J", "K", "L", "M",
            "N", "O", "P", "Q", "R", "S", "T", "U", "V", "W", "X", "Y", "Z"}

\* \w of the re module
IsWord(c) == c \in Digits \cup Letters \cup {"_"}

IsSpace(c) == c \in {" ", "\n", "\t"}

DigitValue(c) ==
    CASE c = "1" -> 1 [] c = "2" -> 2 [] c = "3" -> 3 [] c = "4" -> 4
      [] c = "5" -> 5 [] c = "6" -> 6 [] c = "7" -> 7 [] c = "8" -> 8
      [] c = "9" -> 9 [] OTHER -> 0

RECURSIVE LStrip(_)
LStrip(t) == IF t # <<>> /\ IsSpace(Head(t)) THEN LStrip(Tail(t)) ELSE t

RECURSIVE RStrip(_)
RStrip(t) ==
    IF t # <<>> /\ IsSpace(t[Len(t)]) THEN RStrip(SubSeq(t, 1, Len(t) - 1))
    ELSE t

\* str.strip()
Strip(t) == RStrip(LStrip(t))

\* the positions at which \b[1-5]\b matches in t
ScoreMatches(t) ==
    {i \in 1..Len(t) :
        /\ t[i] \in {"1", "2", "3", "4", "5"}
        /\ (i = 1 \/ ~IsWord(t[i - 1]))
        /\ (i = Len(t) \/ ~IsWord(t[i + 1]))}

Min(S) == CHOOSE x \in S : \A y \in S : x <= y

\* int(re.search(r'\b[1-5]\b', score_text).group()); re.search gives None
\* when nothing matches and None.group() is an AttributeError
ParseScore(t) ==
    LET m == ScoreMatches(t)
    IN  IF m = {} THEN Raised("AttributeError")
        ELSE IntVal(DigitValue(t[Min(m)]))

\* lines 70-75, the body of the try block
EvaluateTry(n) ==
    LET r == PostJson(n)
    IN  CASE IsException(r) -> r
          [] r.type = "noshape" -> Raised("KeyError")
          [] OTHER -> ParseScore(Strip(r.text))

\* lines 69-78: the score, 3 for the exceptions the except clause names;
\* any other exception leaves the function
evaluate_response(n) ==
    LET r == EvaluateTry(n)
    IN  IF IsException(r)
           /\ (IsClientError(r.exc) \/ IsValueError(r.exc)
               \/ IsAttributeError(r.exc))
        THEN IntVal(3)
        ELSE r

----------------------------------------------------------------------------
(* evaluate_responses *)

\* line 88: a row for every key of responses
InitScores(resp) == [b \in DOMAIN resp |-> EmptyDict]

\* Scored without the bot1 != bot2 test of line 93
ScoredSelf(resp, bot1, bot2) ==
    /\ ~IsException(resp[bot1])
    /\ ~IsException(resp[bot2])

\* whether the loops of lines 89-93 reach the call for (bot1, bot2)
Scored(resp, bot1, bot2) ==
    /\ ~IsException(resp[bot1])
    /\ bot1 # bot2
    /\ ~IsException(resp[bot2])

RECURSIVE Flatten(_)
Flatten(ss) == IF ss = <<>> THEN <<>> ELSE Head(ss) \o Flatten(Tail(ss))

\* the calls of evaluate_response the two loops make, in order
EvalCalls(resp) ==
    LET ord == Order(DOMAIN resp)
    IN  Flatten([i \in 1..Len(ord) |->
            SelectSeq([j \in 1..Len(ord) |-> <<ord[i], ord[j]>>],
                      LAMBDA pr : Scored(resp, pr[1], pr[2]))])

\* scores[bot1][bot2] = v
SetScore(tbl, bot1, bot2, v) ==
    [tbl EXCEPT ![bot1] = (bot2 :> v) @@ tbl[bot1]]

----------------------------------------------------------------------------
(* generate_clarification_question *)

ClarifyPrefix == <<"C", "a", "n", " ", "y", "o", "u", " ", "c", "l", "a", "r", "i", "f", "y", " ", "t", "h", "e", " ", "f", "o", "l", "l", "o", "w", "i", "n", "g", ":", " ">>

DetailsPrefix == <<"C", "a", "n", " ", "y", "o", "u", " ", "p", "r", "o", "v", "i", "d", "e", " ", "m", "o", "r", "e", " ", "d", "e", "t", "a", "i", "l", "s", " ", "a", "b", "o", "u", "t", ":", " ">>

IsDelim(c) == c \in {".", "!", "?"}

\* re.findall(r"([^.!?]*\?)", t)[0]: the run of non-delimiters that ends
\* in the first '?' of t
FirstQuestion(t) ==
    LET q == Min({i \in 1..Len(t) : t[i] = "?"})
        before == {i \in 1..(q - 1) : IsDelim(t[i])}
        p == IF before = {} THEN 1
             ELSE 1 + (CHOOSE i \in before : \A j \in before : j <= i)
    IN  SubSeq(t, p, q)

\* the n of response_text[:n], line 110
DetailsLen == 100

\* t[:n] taken as the whole of t
TakeAll(t, n) == t

\* t[:n]
Take(t, n) == SubSeq(t, 1, IF Len(t) < n THEN Len(t) ELSE n)

generate_clarification_question(resp) ==
    IF resp.type # "json" THEN Raised("KeyError")
    ELSE LET t == resp.text
         IN  IF \E i \in 1..Len(t) : t[i] = "?"
             THEN [type |-> "str", text |-> ClarifyPrefix \o FirstQuestion(t),
                   exc |-> "-", num |-> 0]
             ELSE [type |-> "str",
                   text |-> DetailsPrefix \o Take(t, DetailsLen),
                   exc |-> "-", num |-> 0]

----------------------------------------------------------------------------
(* select_best_response and the min() of the clarification loop *)

RECURSIVE SumSeq(_)
SumSeq(s) == IF s = <<>> THEN 0 ELSE Head(s) + SumSeq(Tail(s))

\* sum(score.values())
RowSum(row) ==
    LET ord == Order(DOMAIN row)
    IN  SumSeq([i \in 1..Len(ord) |-> row[ord[i]]])

\* len(score)
RowLen(row) == Cardinality(DOMAIN row)

\* sum(r1.values()) / len(r1) > sum(r2.values()) / len(r2), both non-empty
AvgGreater(r1, r2) == RowSum(r1) * RowLen(r2) > RowSum(r2) * RowLen(r1)

\* BestBot with max() keeping the last of several equal averages
BestBotLast(tbl) ==
    LET ord == Order(DOMAIN tbl)
        best == {a \in 1..Len(ord) :
                    \A b \in 1..Len(ord) :
                        ~AvgGreater(tbl[ord[b]], tbl[ord[a]])}
    IN  ord[CHOOSE a \in best : \A b \in best : b <= a]

\* max(avg_scores, key=avg_scores.get): the first key in dict order that no
\* other key exceeds
BestBot(tbl) ==
    LET ord == Order(DOMAIN tbl)
        i == Min({a \in 1..Len(ord) :
                    \A b \in 1..Len(ord) :
                        ~AvgGreater(tbl[ord[b]], tbl[ord[a]])})
    IN  ord[i]

\* lines 143-145: the division of line 143 fails on an empty row, max() of
\* line 144 on an empty dict
select_best_response(clar, tbl) ==
    IF \E b \in DOMAIN tbl : RowLen(tbl[b]) = 0
    THEN Raised("ZeroDivisionError")
    ELSE IF DOMAIN tbl = {} THEN Raised("ValueError")
    ELSE IF BestBot(tbl) \notin DOMAIN clar THEN Raised("KeyError")
    ELSE clar[BestBot(tbl)]

\* the last key in dict order with the least value
MinKeyLast(row) ==
    LET ord == Order(DOMAIN row)
        i == CHOOSE a \in 1..Len(ord) :
                /\ \A b \in 1..Len(ord) : row[ord[a]] <= row[ord[b]]
                /\ \A b \in 1..Len(ord) :
                    row[ord[b]] = row[ord[a]] => b <= a
    IN  ord[i]

\* min(score_dict, key=score_dict.get): the first key in dict order with
\* the least value
MinKey(row) ==
    LET ord == Order(DOMAIN row)
        i == Min({a \in 1..Len(ord) :
                    \A b \in 1..Len(ord) : row[ord[a]] <= row[ord[b]]})
    IN  ord[i]

----------------------------------------------------------------------------
(* State *)

Pending == [type |-> "pending", text |-> <<>>, exc |-> "-", num |-> 0]

\* the question of the user
Question == <<"Q", "?">>

\* Request with the key of the evaluated bot in an evaluation
RequestSubjectKey(fn, bot, url, via, maxtok, text, subject) ==
    [fn |-> fn,
     key |-> IF subject = "-" THEN API_KEYS(bot) ELSE API_KEYS(subject),
     url |-> url, via |-> via, max_tokens |-> maxtok, text |-> text,
     evaluator |-> bot, subject |-> subject]

\* one call of session.post: the function that makes it, the bot whose
\* API key is in the Authorization header, the URL posted to, the session,
\* max_tokens, the text the prompt is built from and, for an evaluation,
\* the bot whose answer is evaluated
Request(fn, bot, url, via, maxtok, text, subject) ==
    [fn |-> fn, key |-> API_KEYS(bot), url |-> url, via |-> via,
     max_tokens |-> maxtok, text |-> text, evaluator |-> bot,
     subject |-> subject]

NoReq == Request("-", "-", "-", "-", 0, <<>>, "-")

NoCall == [fn |-> "-", bot |-> "-", subject |-> "-", net |-> "-", out |-> None]

\* the configurations of a run: the first n bots, n in 1..MaxBots
Configs == {SubSeq(CHATBOT_APIS, 1, n) : n \in 1..MaxBots}

Init ==
    /\ entry = "interact_between_bots"
    /\ pc = "start"
    /\ bots \in Configs
    /\ sessions = {}
    /\ tasks = <<>>
    /\ wire = EmptyDict
    /\ responses = EmptyDict
    /\ scores = EmptyDict
    /\ clarifications = EmptyDict
    /\ final_scores = EmptyDict
    /\ round = 0
    /\ acc = EmptyDict
    /\ k = 0
    /\ pending = NoReq
    /\ sent = <<>>
    /\ last = NoCall
    /\ response = None
    /\ result = None

\* Raise with the sessions left open
RaiseLeak(e) ==
    /\ pc' = "raised"
    /\ result' = e
    /\ sessions' = sessions
    /\ pending' = NoReq

\* an exception leaves the invoked function: every async with block closes
\* its session on the way out
Raise(e) ==
    /\ pc' = "raised"
    /\ result' = e
    /\ sessions' = {}
    /\ pending' = NoReq

----------------------------------------------------------------------------
(* interact_between_bots, line 121 *)

OpenSession ==
    /\ pc = "start"
    /\ sessions' = sessions \cup {"run"}
    /\ pc' = "ask"
    /\ UNCHANGED <<response, entry, bots, tasks, wire, responses, scores, clarifications,
                   final_scores, round, acc, k, pending, sent, last, result>>

----------------------------------------------------------------------------
(* get_responses_from_chatbots *)

\* Zip pairing the keys with the results in the opposite order
ZipReversed(keys, results) ==
    [b \in SeqToSet(keys) |->
        results[Len(keys) + 1 - Min({i \in 1..Len(keys) : keys[i] = b})]]

\* line 49: {chatbot: response for chatbot, response in zip(keys, results)}
Zip(keys, results) ==
    [b \in SeqToSet(keys) |->
        results[Min({i \in 1..Len(keys) : keys[i] = b})]]

\* lines 46-48: the session of the pool, one task per bot, gather(); every
\* task runs to its session.post before the event loop resumes any of them
FanOut ==
    /\ pc = "ask"
    /\ sessions' = sessions \cup {"pool"}
    /\ tasks' = [i \in 1..Len(bots) |-> Pending]
    /\ sent' = sent \o [i \in 1..Len(bots) |->
                  Request("send_to_chatbot", bots[i], Url(bots[i]), "pool",
                          150, Question, "-")]
    /\ pc' = "gather"
    /\ UNCHANGED <<response, entry, bots, wire, responses, scores, clarifications,
                   final_scores, round, acc, k, pending, last, result>>

\* TaskDone with the results kept in the order the tasks end
TaskDoneInOrder(i, n) ==
    /\ pc = "gather"
    /\ bots[i] \notin DOMAIN wire
    /\ tasks' = [tasks EXCEPT ![Cardinality(DOMAIN wire) + 1] =
                    send_to_chatbot(n)]
    /\ wire' = (bots[i] :> n) @@ wire
    /\ last' = [fn |-> "send_to_chatbot", bot |-> bots[i], subject |-> "-",
                net |-> n.net, out |-> send_to_chatbot(n)]
    /\ UNCHANGED <<response, entry, pc, bots, sessions, responses, scores,
                   clarifications, final_scores, round, acc, k, pending,
                   sent, result>>

\* one task ends: gather(return_exceptions=True) keeps what it returned or
\* raised
TaskDone(i, n) ==
    /\ pc = "gather"
    /\ tasks[i] = Pending
    /\ tasks' = [tasks EXCEPT ![i] = send_to_chatbot(n)]
    /\ wire' = (bots[i] :> n) @@ wire
    /\ last' = [fn |-> "send_to_chatbot", bot |-> bots[i], subject |-> "-",
                net |-> n.net, out |-> send_to_chatbot(n)]
    /\ UNCHANGED <<response, entry, pc, bots, sessions, responses, scores,
                   clarifications, final_scores, round, acc, k, pending,
                   sent, result>>

\* lines 48-49 and 122: gather returns when no task is left, the dict is
\* zipped from the keys and the results, the session of the pool closes
GatherReturn ==
    /\ pc = "gather"
    /\ \A i \in 1..Len(tasks) : tasks[i] # Pending
    /\ responses' = Zip(bots, tasks)
    /\ sessions' = sessions \ {"pool"}
    /\ pc' = IF entry = "get_responses_from_chatbots" THEN "returned"
             ELSE "answered"
    /\ UNCHANGED <<response, entry, bots, tasks, wire, scores, clarifications,
                   final_scores, round, acc, k, pending, sent, last, result>>

----------------------------------------------------------------------------
(* evaluate_responses *)

\* the dict the running call of evaluate_responses was given
EvalInput == IF round = 1 THEN responses ELSE clarifications

\* lines 123 and 131, then line 88
CallEvaluate ==
    /\ pc \in {"answered", "clarified"}
    /\ round' = IF pc = "answered" THEN 1 ELSE 2
    /\ acc' = InitScores(IF pc = "answered" THEN responses
                         ELSE clarifications)
    /\ k' = 0
    /\ pc' = "evaluate"
    /\ UNCHANGED <<response, entry, bots, sessions, tasks, wire, responses, scores,
                   clarifications, final_scores, pending, sent, last, result>>

\* lines 94 and 60-70: the next call of evaluate_response up to its POST;
\* line 64 reads the text of the answer before the try block
EvalIssue ==
    /\ pc = "evaluate"
    /\ pending = NoReq
    /\ k < Len(EvalCalls(EvalInput))
    /\ LET bot1 == EvalCalls(EvalInput)[k + 1][1]
           bot2 == EvalCalls(EvalInput)[k + 1][2]
       IN  IF EvalInput[bot2].type # "json"
           THEN /\ Raise(Raised("KeyError"))
                /\ UNCHANGED sent
           ELSE /\ pending' = Request("evaluate_response", bot1, Url(bot1),
                                      "run", 50, EvalInput[bot2].text, bot2)
                /\ sent' = Append(sent, pending')
                /\ UNCHANGED <<pc, sessions, result>>
    /\ UNCHANGED <<response, entry, bots, tasks, wire, responses, scores, clarifications,
                   final_scores, round, acc, k, last>>

\* lines 70-78 and 94: the POST ends, the score is stored
EvalReply(n) ==
    /\ pc = "evaluate"
    /\ pending # NoReq
    /\ last' = [fn |-> "evaluate_response", bot |-> pending.evaluator,
                subject |-> pending.subject, net |-> n.net,
                out |-> evaluate_response(n)]
    /\ IF IsException(evaluate_response(n))
       THEN /\ Raise(evaluate_response(n))
            /\ UNCHANGED <<acc, k>>
       ELSE /\ acc' = SetScore(acc, pending.evaluator, pending.subject,
                               evaluate_response(n).num)
            /\ k' = k + 1
            /\ pending' = NoReq
            /\ UNCHANGED <<pc, sessions, result>>
    /\ UNCHANGED <<response, entry, bots, tasks, wire, responses, scores, clarifications,
                   final_scores, round, sent>>

\* EvalReturn after any number of the calls of line 94
EvalReturnEarly ==
    /\ pc = "evaluate"
    /\ pending = NoReq
    /\ IF round = 1
       THEN /\ scores' = acc
            /\ k' = 0
            /\ pc' = IF entry = "evaluate_responses" THEN "returned"
                     ELSE "clarify"
            /\ UNCHANGED final_scores
       ELSE /\ final_scores' = acc
            /\ pc' = "select"
            /\ UNCHANGED <<scores, k>>
    /\ UNCHANGED <<response, entry, bots, sessions, tasks, wire, responses, clarifications,
                   round, acc, pending, sent, last, result>>

\* line 95, and the assignment of line 123 or 131
EvalReturn ==
    /\ pc = "evaluate"
    /\ pending = NoReq
    /\ k = Len(EvalCalls(EvalInput))
    /\ IF round = 1
       THEN /\ scores' = acc
            /\ k' = 0
            /\ pc' = IF entry = "evaluate_responses" THEN "returned"
                     ELSE "clarify"
            /\ UNCHANGED final_scores
       ELSE /\ final_scores' = acc
            /\ pc' = "select"
            /\ UNCHANGED <<scores, k>>
    /\ UNCHANGED <<response, entry, bots, sessions, tasks, wire, responses, clarifications,
                   round, acc, pending, sent, last, result>>

----------------------------------------------------------------------------
(* interact_between_bots, lines 125-133 *)

\* lines 126-129 up to the POST of send_to_chatbot: min() of an empty row
\* is a ValueError
ClarifyIssue ==
    /\ pc = "clarify"
    /\ pending = NoReq
    /\ k < Len(Order(DOMAIN scores))
    /\ LET bot == Order(DOMAIN scores)[k + 1]
           score_dict == scores[bot]
       IN  IF DOMAIN score_dict = {}
           THEN /\ Raise(Raised("ValueError"))
                /\ UNCHANGED sent
           ELSE LET bot_to_ask == MinKey(score_dict)
                    q == generate_clarification_question(responses[bot_to_ask])
                IN  IF IsException(q)
                    THEN /\ Raise(q)
                         /\ UNCHANGED sent
                    ELSE /\ pending' = Request("send_to_chatbot", bot,
                                               Url(bot), "run", 150, q.text,
                                               "-")
                         /\ sent' = Append(sent, pending')
                         /\ UNCHANGED <<pc, sessions, result>>
    /\ UNCHANGED <<response, entry, bots, tasks, wire, responses, scores, clarifications,
                   final_scores, round, acc, k, last>>

\* ClarifyReply asking again when send_to_chatbot returned the sentinel
ClarifyReplyRetry(n) ==
    /\ pc = "clarify"
    /\ pending # NoReq
    /\ last' = [fn |-> "send_to_chatbot", bot |-> pending.evaluator,
                subject |-> "-", net |-> n.net, out |-> send_to_chatbot(n)]
    /\ IF IsException(send_to_chatbot(n))
       THEN /\ Raise(send_to_chatbot(n))
            /\ UNCHANGED <<clarifications, k>>
       ELSE /\ IF send_to_chatbot(n) = Sentinel
               THEN UNCHANGED <<clarifications, k>>
               ELSE /\ clarifications' =
                         (pending.evaluator :> send_to_chatbot(n))
                             @@ clarifications
                    /\ k' = k + 1
            /\ pending' = NoReq
            /\ UNCHANGED <<pc, sessions, result>>
    /\ UNCHANGED <<response, entry, bots, tasks, wire, responses, scores, final_scores,
                   round, acc, sent>>

\* line 129: send_to_chatbot returns or raises into interact_between_bots
ClarifyReply(n) ==
    /\ pc = "clarify"
    /\ pending # NoReq
    /\ last' = [fn |-> "send_to_chatbot", bot |-> pending.evaluator,
                subject |-> "-", net |-> n.net, out |-> send_to_chatbot(n)]
    /\ IF IsException(send_to_chatbot(n))
       THEN /\ Raise(send_to_chatbot(n))
            /\ UNCHANGED <<clarifications, k>>
       ELSE /\ clarifications' =
                   (pending.evaluator :> send_to_chatbot(n)) @@ clarifications
            /\ k' = k + 1
            /\ pending' = NoReq
            /\ UNCHANGED <<pc, sessions, result>>
    /\ UNCHANGED <<response, entry, bots, tasks, wire, responses, scores, final_scores,
                   round, acc, sent>>

\* the loop of line 126 ends
ClarifyDone ==
    /\ pc = "clarify"
    /\ pending = NoReq
    /\ k = Len(Order(DOMAIN scores))
    /\ pc' = "clarified"
    /\ UNCHANGED <<response, entry, bots, sessions, tasks, wire, responses, scores,
                   clarifications, final_scores, round, acc, k, pending,
                   sent, last, result>>

\* lines 132-133: select_best_response, then the return through the
\* async with of line 121
Select ==
    /\ pc = "select"
    /\ LET best_response == select_best_response(clarifications, final_scores)
       IN  IF IsException(best_response)
           THEN Raise(best_response)
           ELSE /\ result' = best_response
                /\ pc' = IF entry = "select_best_response" THEN "returned"
                         ELSE "done"
                /\ sessions' = {}
                /\ UNCHANGED pending
    /\ UNCHANGED <<response, entry, bots, tasks, wire, responses, scores, clarifications,
                   final_scores, round, acc, k, sent, last>>

----------------------------------------------------------------------------

Next ==
    \/ OpenSession
    \/ FanOut
    \/ \E i \in 1..Len(bots), n \in Net(AnswerTexts) : TaskDone(i, n)
    \/ GatherReturn
    \/ CallEvaluate
    \/ EvalIssue
    \/ \E n \in Net(ScoreReplies) : EvalReply(n)
    \/ EvalReturn
    \/ ClarifyIssue
    \/ \E n \in Net(AnswerTexts) : ClarifyReply(n)
    \/ ClarifyDone
    \/ Select

Spec == Init /\ [][Next]_vars

\* the run when every network call ends and the event loop resumes the
\* coroutine whenever it can go on
FairSpec == Init /\ [][Next]_vars /\ WF_vars(Next)

----------------------------------------------------------------------------
(* The functions called on their own, on inputs their callers can pass *)

\* every non-empty prefix of CHATBOT_APIS as the configuration
AllConfigs == {SubSeq(CHATBOT_APIS, 1, n) : n \in 1..Len(CHATBOT_APIS)}

\* what a slot of gather()'s result can hold
Outcomes == {send_to_chatbot(n) : n \in Net(AnswerTexts)}

Idle ==
    /\ tasks = <<>>
    /\ wire = EmptyDict
    /\ round = 0
    /\ acc = EmptyDict
    /\ k = 0
    /\ pending = NoReq
    /\ sent = <<>>
    /\ last = NoCall
    /\ response = None
    /\ result = None

\* get_responses_from_chatbots(question)
InitPool ==
    /\ entry = "get_responses_from_chatbots"
    /\ pc = "ask"
    /\ bots \in AllConfigs
    /\ sessions = {}
    /\ responses = EmptyDict
    /\ scores = EmptyDict
    /\ clarifications = EmptyDict
    /\ final_scores = EmptyDict
    /\ Idle

NextPool ==
    \/ FanOut
    \/ \E i \in 1..Len(bots), n \in Net(AnswerTexts) : TaskDone(i, n)
    \/ GatherReturn

PoolSpec == InitPool /\ [][NextPool]_vars

\* evaluate_responses(session, responses) on a dict gather() can fill
InitEval ==
    /\ entry = "evaluate_responses"
    /\ pc = "answered"
    /\ bots \in AllConfigs
    /\ sessions = {"run"}
    /\ responses \in [Keys -> Outcomes]
    /\ scores = EmptyDict
    /\ clarifications = EmptyDict
    /\ final_scores = EmptyDict
    /\ Idle

NextEval ==
    \/ CallEvaluate
    \/ EvalIssue
    \/ \E n \in Net(ScoreReplies) : EvalReply(n)
    \/ EvalReturn

EvalSpec == InitEval /\ [][NextEval]_vars

\* the score tables evaluate_responses builds when the bots of live have an
\* answer: a row for every key, an entry for every pair of distinct live bots
Tables(live) ==
    {[b \in Keys |-> IF b \in live THEN [c \in live \ {b} |-> f[<<b, c>>]]
                     ELSE EmptyDict] :
        f \in [{pr \in live \X live : pr[1] # pr[2]} -> 1..5]}

\* the answers the table is about: the text of bot b is the name b
Candidates(live) ==
    [b \in Keys |-> IF b \in live THEN Json(<<b>>)
                    ELSE Raised("JSONDecodeError")]

\* select_best_response(clarifications, scores)
InitSelect ==
    /\ entry = "select_best_response"
    /\ pc = "select"
    /\ bots \in AllConfigs
    /\ sessions = {}
    /\ responses = EmptyDict
    /\ scores = EmptyDict
    /\ \E live \in SUBSET Keys :
        /\ clarifications = Candidates(live)
        /\ final_scores \in Tables(live)
    /\ Idle

NextSelect == Select

SelectSpec == InitSelect /\ [][NextSelect]_vars

\* the scores of the first table when the clarification loop is run on its
\* own: the default of line 78 and a parsed score
FirstScores == {3, 5}

\* the first tables: Tables(live) with the scores of FirstScores
FirstTables(live) ==
    {[b \in Keys |-> IF b \in live THEN [c \in live \ {b} |-> f[<<b, c>>]]
                     ELSE EmptyDict] :
        f \in [{pr \in live \X live : pr[1] # pr[2]} -> FirstScores]}

\* interact_between_bots after line 123: responses is a dict gather() can
\* fill on which evaluate_responses returned (line 64 raises on an answer
\* without choices[0].text that is evaluated), scores is its table
InitClarify ==
    /\ entry = "interact_between_bots"
    /\ pc = "clarify"
    /\ bots \in AllConfigs
    /\ sessions = {"run"}
    /\ responses \in [Keys -> Outcomes]
    /\ \A b \in Keys :
        (\E e \in Keys : Scored(responses, e, b))
            => responses[b].type = "json"
    /\ scores \in FirstTables({b \in Keys : ~IsException(responses[b])})
    /\ clarifications = EmptyDict
    /\ final_scores = EmptyDict
    /\ tasks = <<>>
    /\ wire = EmptyDict
    /\ round = 1
    /\ acc = scores
    /\ k = 0
    /\ pending = NoReq
    /\ sent = <<>>
    /\ last = NoCall
    /\ response = None
    /\ result = None

NextClarify ==
    \/ ClarifyIssue
    \/ \E n \in Net(AnswerTexts) : ClarifyReply(n)
    \/ ClarifyDone

ClarifySpec == InitClarify /\ [][NextClarify]_vars

\* the characters of the drawn answer texts
TextChars == {"a", " ", ".", "!", "?"}

RECURSIVE Strings(_)
Strings(n) ==
    IF n = 0 THEN {<<>>}
    ELSE Strings(n - 1)
            \cup {Append(t, c) : t \in {u \in Strings(n - 1) : Len(u) = n - 1},
                                 c \in TextChars}

\* "It works. Have you tried restarting?"
ExampleText == <<"I", "t", " ", "w", "o", "r", "k", "s", ".", " ", "H", "a", "v", "e", " ", "y", "o", "u", " ", "t", "r", "i", "e", "d", " ", "r", "e", "s", "t", "a", "r", "t", "i", "n", "g", "?">>

\* n times the letter a
Run(n) == [i \in 1..n |-> "a"]

\* the texts given to generate_clarification_question: every short text,
\* the example, and texts around DetailsLen characters with and without a
\* question after them
Texts ==
    Strings(MaxTextLen)
        \cup {ExampleText}
        \cup {Run(n) : n \in (DetailsLen - 1)..(DetailsLen + 2)}
        \cup {Run(n) \o <<".", " ", "a", "?">> :
                n \in (DetailsLen - 1)..(DetailsLen + 1)}

\* generate_clarification_question(response)
InitQuestion ==
    /\ entry = "generate_clarification_question"
    /\ pc = "question"
    /\ bots = CHATBOT_APIS
    /\ sessions = {}
    /\ responses = EmptyDict
    /\ scores = EmptyDict
    /\ clarifications = EmptyDict
    /\ final_scores = EmptyDict
    /\ tasks = <<>>
    /\ wire = EmptyDict
    /\ round = 0
    /\ acc = EmptyDict
    /\ k = 0
    /\ pending = NoReq
    /\ sent = <<>>
    /\ last = NoCall
    /\ response \in {Json(t) : t \in Texts}
    /\ result = None

\* lines 104-112
Generate ==
    /\ pc = "question"
    /\ result' = generate_clarification_question(response)
    /\ pc' = "returned"
    /\ UNCHANGED <<entry, bots, sessions, tasks, wire, responses, scores,
                   clarifications, final_scores, round, acc, k, pending,
                   sent, last, response>>

NextQuestion == Generate

QuestionSpec == InitQuestion /\ [][NextQuestion]_vars

----------------------------------------------------------------------------
(* Properties *)

\* the scores the answer of bot b received: column b of the table
Received(tbl, b) ==
    [e \in {e \in DOMAIN tbl : b \in DOMAIN tbl[e]} |-> tbl[e][b]]

\* C1: a finished run returns the clarified answer of a bot whose clarified
\* answer received the highest average score in the second round.
C1_ReturnsBestReceived ==
    pc = "done" =>
        \E b \in DOMAIN clarifications :
            /\ result = clarifications[b]
            /\ \A c \in DOMAIN clarifications :
                ~AvgGreater(Received(final_scores, c),
                            Received(final_scores, b))

\* C2: when select_best_response returns, it returns the candidate of the
\* bot whose row has the greatest mean, the first such bot in dict order.
C2_SelectsFirstMaxMean ==
    (entry = "select_best_response" /\ pc = "returned") =>
        \E i \in 1..Len(bots) :
            /\ result = clarifications[bots[i]]
            /\ \A j \in 1..Len(bots) :
                /\ RowSum(final_scores[bots[j]]) * RowLen(final_scores[bots[i]])
                    <= RowSum(final_scores[bots[i]])
                        * RowLen(final_scores[bots[j]])
                /\ j < i =>
                    RowSum(final_scores[bots[j]])
                        * RowLen(final_scores[bots[i]])
                    < RowSum(final_scores[bots[i]])
                        * RowLen(final_scores[bots[j]])

\* three bots, the second and the third share the greatest mean, the first
\* has a lower one, and the second bot's candidate was returned
C2_Witness ==
    /\ entry = "select_best_response"
    /\ pc = "returned"
    /\ bots = <<"A", "B", "C">>
    /\ RowSum(final_scores["B"]) = RowSum(final_scores["C"])
    /\ RowSum(final_scores["A"]) < RowSum(final_scores["B"])
    /\ final_scores["B"] # final_scores["C"]
    /\ result = clarifications["B"]

\* every bot's initial request failed: its transport failed or the backend
\* answered with a non-success status
AllFailedInit ==
    /\ DOMAIN wire = Keys
    /\ \A b \in Keys : wire[b].net \in {"conn", "status"}

\* the failure the run is to hand to its caller when no bot answered
NoAnswerAvailable ==
    [type |-> "failure", text |-> <<>>, exc |-> "no answer available",
     num |-> 0]

\* C3: when every bot fails in the initial round the run neither raises nor
\* returns an answer: it ends with the failure "no answer available".
C3_AllFailedSurfacesNoAnswer ==
    AllFailedInit =>
        /\ pc # "raised"
        /\ pc = "done" => result = NoAnswerAvailable

\* C4: with two or more bots no run ends in an exception, whatever network
\* calls fail.
C4_NoUnhandledFault == Len(bots) >= 2 => pc # "raised"

\* C5: send_to_chatbot returns the sentinel answer for every failed call.
C5_SentinelOnEveryFailure ==
    (last.fn = "send_to_chatbot" /\ last.net # "ok") => last.out = Sentinel

\* C6: get_responses_from_chatbots returns one entry per configured bot,
\* and the entry of a bot is the outcome of that bot's own request: the
\* answer of the backend when the request succeeded, the sentinel when its
\* transport failed or the status was no success, the exception gather()
\* kept when the body did not parse, whatever happened to the other bots.
C6_EveryBotKeepsItsOutcome ==
    (entry = "get_responses_from_chatbots" /\ pc = "returned") =>
        /\ DOMAIN responses = Keys
        /\ \A b \in Keys :
            /\ wire[b].net = "ok" => responses[b] = Json(wire[b].body)
            /\ wire[b].net \in {"conn", "status"} => responses[b] = Sentinel
            /\ wire[b].net = "badjson" => IsException(responses[b])

\* bots A, B, C; B's transport failed, A and C answered with different
\* texts
C6_Witness ==
    /\ entry = "get_responses_from_chatbots"
    /\ pc = "returned"
    /\ bots = <<"A", "B", "C">>
    /\ wire["B"].net = "conn"
    /\ wire["A"].net = "ok"
    /\ wire["C"].net = "ok"
    /\ wire["A"].body # wire["C"].body
    /\ responses["B"] = Sentinel

\* C7: select_best_response raises no division error on a table with an
\* empty row; the bot of that row is left out and the best of the other
\* bots is returned.
C7_EmptyRowIsExcluded ==
    LET rated == {b \in DOMAIN final_scores : DOMAIN final_scores[b] # {}}
    IN  (/\ entry = "select_best_response"
         /\ pc # "select"
         /\ rated # {}
         /\ rated # DOMAIN final_scores) =>
            /\ pc = "returned"
            /\ \E b \in rated :
                /\ result = clarifications[b]
                /\ \A c \in rated :
                    ~AvgGreater(final_scores[c], final_scores[b])

\* the (evaluator, subject) entries of a score table
Entries(tbl) ==
    {pr \in (DOMAIN tbl) \X Keys : pr[2] \in DOMAIN tbl[pr[1]]}

\* the ordered pairs of distinct bots that both hold an answer
LivePairs(resp) ==
    {pr \in (DOMAIN resp) \X (DOMAIN resp) :
        /\ pr[1] # pr[2]
        /\ resp[pr[1]].type # "exc"
        /\ resp[pr[2]].type # "exc"}

\* the scoring requests sent for the pair (evaluator, subject)
ScoringRequests(e, b) ==
    {i \in 1..Len(sent) :
        /\ sent[i].fn = "evaluate_response"
        /\ sent[i].evaluator = e
        /\ sent[i].subject = b}

\* C8: when evaluate_responses returns, the entries of the table are the
\* ordered pairs of distinct bots that both hold an answer, and one scoring
\* request was sent for each of them, to the URL of the evaluator.
C8_EntriesAreLivePairs ==
    (entry = "evaluate_responses" /\ pc = "returned") =>
        /\ Entries(scores) = LivePairs(responses)
        /\ Len(sent) = Cardinality(LivePairs(responses))
        /\ \A pr \in LivePairs(responses) :
            /\ Cardinality(ScoringRequests(pr[1], pr[2])) = 1
            /\ \A i \in ScoringRequests(pr[1], pr[2]) :
                sent[i].url = Url(pr[1])

\* three bots, B's slot holds an exception, A and C scored each other
C8_Witness ==
    /\ entry = "evaluate_responses"
    /\ pc = "returned"
    /\ bots = <<"A", "B", "C">>
    /\ IsException(responses["B"])
    /\ Entries(scores) = {<<"A", "C">>, <<"C", "A">>}
    /\ Len(sent) = 2

\* C9: evaluate_response always returns an integer in 1..5, and 3 when the
\* scoring call or its reply failed; it never raises.
C9_ScoreOrDefault ==
    last.fn = "evaluate_response" =>
        /\ last.out.type = "int"
        /\ last.out.num \in 1..5
        /\ last.net # "ok" => last.out.num = 3

\* the bots that hold an answer in a dict of gather() results
Live(resp) == {b \in DOMAIN resp : ~IsException(resp[b])}

\* C10: the rows of a round's score table are the bots whose answer
\* succeeded in that round.
C10_RowsAreLiveBots ==
    /\ pc \in {"clarify", "clarified"} => DOMAIN scores = Live(responses)
    /\ pc = "select" => DOMAIN final_scores = Live(clarifications)

\* "Can you clarify the following: Have you tried restarting?"
ExampleQuestion == ClarifyPrefix \o <<"H", "a", "v", "e", " ", "y", "o", "u", " ", "t", "r", "i", "e", "d", " ", "r", "e", "s", "t", "a", "r", "t", "i", "n", "g", "?">>

\* C12: for an answer text holding a question, the returned text is
\* "Can you clarify the following: " followed by the first question
\* sentence; "It works. Have you tried restarting?" yields exactly
\* "Can you clarify the following: Have you tried restarting?"
C12_ExampleYieldsQuestion ==
    (pc = "returned" /\ entry = "generate_clarification_question"
        /\ response = Json(ExampleText))
        => result.text = ExampleQuestion

HasQuestionMark(t) == \E i \in 1..Len(t) : t[i] = "?"

\* the first n characters of t, the whole of t when it is shorter
FirstChars(t, n) == [i \in 1..(IF Len(t) < n THEN Len(t) ELSE n) |-> t[i]]

StartsWith(t, p) == Len(t) >= Len(p) /\ SubSeq(t, 1, Len(p)) = p

\* C13: the fallback branch is taken exactly when the text holds no '?',
\* and it returns "Can you provide more details about: " followed by the
\* first 100 characters of the text (the whole text when shorter); the
\* result is a function of the text alone
C13_FallbackIffNoQuestionMark ==
    (pc = "returned" /\ entry = "generate_clarification_question")
        => /\ result.type = "str"
           /\ IF HasQuestionMark(response.text)
              THEN /\ StartsWith(result.text, ClarifyPrefix)
                   /\ ~StartsWith(result.text, DetailsPrefix)
              ELSE result.text
                     = DetailsPrefix \o FirstChars(response.text, 100)

C13_Witness ==
    /\ pc = "returned"
    /\ entry = "generate_clarification_question"
    /\ ~HasQuestionMark(response.text)
    /\ Len(response.text) > 100
    /\ Len(result.text) = Len(DetailsPrefix) + 100

\* the clarification requests: send_to_chatbot on the session of line 121
ClarificationRequests ==
    {i \in 1..Len(sent) :
        sent[i].fn = "send_to_chatbot" /\ sent[i].via = "run"}

\* the position of bot b in the iteration order of the dicts
Position(b) == CHOOSE i \in 1..Len(bots) : bots[i] = b

\* the subject B scored lowest, the first of them in iteration order
LowestScored(B) ==
    CHOOSE P \in DOMAIN scores[B] :
        \A Q \in DOMAIN scores[B] :
            \/ scores[B][P] < scores[B][Q]
            \/ scores[B][P] = scores[B][Q] /\ Position(P) <= Position(Q)

\* C11: in the clarification phase every question sent for a bot B with a
\* row in the first table is generated from the initial answer of the
\* subject B scored lowest (the first one in iteration order on ties) and
\* goes to B itself; when the phase ends the clarification map has exactly
\* one entry per such B, keyed by B.
C11_AsksBAboutItsLowestScored ==
    (entry = "interact_between_bots" /\ pc \in {"clarify", "clarified"}) =>
        /\ \A i \in ClarificationRequests :
            LET B == sent[i].evaluator
            IN  /\ B \in DOMAIN scores
                /\ DOMAIN scores[B] # {}
                /\ sent[i].url = Url(B)
                /\ sent[i].key = API_KEYS(B)
                /\ sent[i].text =
                     generate_clarification_question(
                         responses[LowestScored(B)]).text
        /\ \A i, j \in ClarificationRequests :
            sent[i].evaluator = sent[j].evaluator => i = j
        /\ DOMAIN clarifications \subseteq
             {sent[i].evaluator : i \in ClarificationRequests}
        /\ pc = "clarified" =>
            /\ DOMAIN clarifications = DOMAIN scores
            /\ {sent[i].evaluator : i \in ClarificationRequests}
                 = DOMAIN scores

\* three bots, A scored B and C equally low and their answers differ; the
\* phase ended with A asked about B's answer
C11_Witness ==
    /\ entry = "interact_between_bots"
    /\ pc = "clarified"
    /\ Len(bots) = 3
    /\ scores["A"]["B"] = scores["A"]["C"]
    /\ responses["B"] # responses["C"]
    /\ scores["C"]["B"] < scores["C"]["A"]
    /\ DOMAIN clarifications = {"A", "B", "C"}
    /\ \E i \in ClarificationRequests :
        /\ sent[i].evaluator = "A"
        /\ sent[i].text =
             generate_clarification_question(responses["B"]).text

\* the place of a state in the pipeline of lines 121-133
PhaseRank ==
    CASE pc = "start" -> 0
      [] pc = "ask" -> 1
      [] pc = "gather" -> 2
      [] pc = "answered" -> 3
      [] pc = "evaluate" /\ round = 1 -> 4
      [] pc = "clarify" -> 5
      [] pc = "clarified" -> 6
      [] pc = "evaluate" /\ round = 2 -> 7
      [] pc = "select" -> 8
      [] OTHER -> 9

\* the step issues a request: the log grows
Issues == Len(sent') > Len(sent)

\* C14: the phases of a run follow one another and none is revisited: a
\* first-round scoring request is issued only when every initial request
\* has resolved, a clarification request only when the first table is
\* complete, a second-round scoring request only when every clarification
\* request has resolved, and the selection is made only on a complete
\* second table.
C14_PhasesInOrder ==
    [][/\ PhaseRank' >= PhaseRank
       /\ (Issues /\ sent'[Len(sent')].via = "pool") => sent = <<>>
       /\ (Issues /\ sent'[Len(sent')].fn = "evaluate_response"
             /\ round = 1) =>
            /\ tasks # <<>>
            /\ \A i \in 1..Len(tasks) : tasks[i] # Pending
            /\ \A b \in Keys : responses[b] = tasks[Position(b)]
       /\ (Issues /\ sent'[Len(sent')].fn = "send_to_chatbot"
             /\ sent'[Len(sent')].via = "run") =>
            /\ pending = NoReq
            /\ DOMAIN scores = Keys
            /\ Entries(scores) = LivePairs(responses)
       /\ (Issues /\ sent'[Len(sent')].fn = "evaluate_response"
             /\ round = 2) =>
            /\ pending = NoReq
            /\ DOMAIN clarifications = Keys
            /\ \A b \in Keys : clarifications[b] # Pending
       /\ (pc # "done" /\ pc' = "done") =>
            /\ pending = NoReq
            /\ DOMAIN final_scores = Keys
            /\ Entries(final_scores) = LivePairs(clarifications)
      ]_vars

\* a run of two bots went through every phase: two initial requests, two
\* scoring requests, two clarification requests, two scoring requests
C14_Witness ==
    /\ pc = "done"
    /\ Len(bots) = 2
    /\ Len(sent) = 8
    /\ sent[3].fn = "evaluate_response"
    /\ sent[5].fn = "send_to_chatbot"
    /\ sent[7].fn = "evaluate_response"

\* what the request of a bot comes to, given what the network did to it
OutcomeOf(n) ==
    CASE n.net = "ok" -> Json(n.body)
      [] n.net \in {"conn", "status", "ctype"} -> Sentinel
      [] n.net = "badjson" -> Raised("JSONDecodeError")
      [] OTHER -> NoShape

\* C15: in the fan-out every request is issued before any of them is
\* awaited, and in whatever order the requests end, the slot and the key of
\* a bot hold the outcome of the request sent to that bot: the mapping is a
\* function of what happened to each request, not of the order.
C15_OrderOfCompletionIsIrrelevant ==
    (entry = "get_responses_from_chatbots" /\ pc \in {"gather", "returned"})
        => /\ Len(sent) = Len(bots)
           /\ Len(tasks) = Len(bots)
           /\ \A i \in 1..Len(bots) :
                /\ sent[i].fn = "send_to_chatbot"
                /\ sent[i].evaluator = bots[i]
                /\ sent[i].url = Url(bots[i])
                /\ sent[i].text = Question
                /\ tasks[i] = Pending <=> bots[i] \notin DOMAIN wire
                /\ tasks[i] # Pending => tasks[i] = OutcomeOf(wire[bots[i]])
           /\ pc = "returned" =>
                /\ DOMAIN responses = Keys
                /\ DOMAIN wire = Keys
                /\ \A b \in Keys : responses[b] = OutcomeOf(wire[b])

\* three bots with three different outcomes, the request of the first bot
\* ended last
C15_Witness ==
    /\ entry = "get_responses_from_chatbots"
    /\ pc = "returned"
    /\ bots = <<"A", "B", "C">>
    /\ last.bot = "A"
    /\ wire["A"].net = "ok"
    /\ wire["B"].net = "badjson"
    /\ wire["C"].net = "status"
    /\ responses["A"] = Json(wire["A"].body)
    /\ responses["C"] = Sentinel

\* the requests of the log made by fn in the session via
RequestsOf(fn, via) ==
    {i \in 1..Len(sent) : sent[i].fn = fn /\ sent[i].via = via}

\* C16: each round has a session of its own, opened for the round and
\* closed, with no call of the round in flight, before the results of the
\* round are used by the next phase: the session of the initial requests is
\* closed when the answers are scored, the session of the first scoring
\* requests when the table is read by the clarification loop, the session
\* of the clarification requests when the clarified answers are scored,
\* the session of the second scoring requests when the best is selected.
C16_SessionPerRound ==
    entry = "interact_between_bots" =>
        /\ PhaseRank \in 3..8 =>
            \A i \in 1..Len(sent) :
                (sent[i].fn = "send_to_chatbot" /\ i <= Len(bots))
                    => sent[i].via \notin sessions
        /\ pc = "clarify" =>
            \A i \in 1..Len(sent) :
                sent[i].fn = "evaluate_response"
                    => sent[i].via \notin sessions
        /\ (pc = "evaluate" /\ round = 2) =>
            \A i \in 1..Len(sent) :
                (sent[i].fn = "send_to_chatbot" /\ i > Len(bots))
                    => sent[i].via \notin sessions
        /\ pc = "select" =>
            \A i \in 1..Len(sent) :
                sent[i].fn = "evaluate_response"
                    => sent[i].via \notin sessions

\* C16 as the code has it: the initial round alone has a session of its
\* own, open exactly while its requests are awaited and closed with none
\* of them pending before the answers are used; every later request is
\* made in the one session opened at the start of the run, which is open
\* whenever a call is in flight and is closed, with no call in flight,
\* when the run returns or raises.
C16_PoolSessionAndRunSession ==
    entry = "interact_between_bots" =>
        /\ "pool" \in sessions <=> pc = "gather"
        /\ "run" \in sessions <=> pc \notin {"start", "done", "raised"}
        /\ \A i \in 1..Len(sent) :
            sent[i].via = IF i <= Len(bots) THEN "pool" ELSE "run"
        /\ (\E i \in 1..Len(tasks) : tasks[i] = Pending)
                => "pool" \in sessions
        /\ pending # NoReq => pending.via = "run" /\ "run" \in sessions
        /\ pc \in {"done", "raised"} => sessions = {} /\ pending = NoReq

\* a clarification call is in flight in the session in which the first
\* table was scored; the session of the pool is closed
C16_Witness ==
    /\ entry = "interact_between_bots"
    /\ pc = "clarify"
    /\ pending # NoReq
    /\ pending.fn = "send_to_chatbot"
    /\ sessions = {"run"}
    /\ RequestsOf("evaluate_response", "run") # {}
    /\ RequestsOf("send_to_chatbot", "pool") # {}

\* interact_between_bots has returned or raised
Terminal == pc \in {"done", "raised"}

\* what the caller is handed: one of the clarified answers, or an exception
Handed ==
    /\ pc = "done" =>
        /\ result.type = "json"
        /\ \E b \in DOMAIN clarifications : result = clarifications[b]
    /\ pc = "raised" => IsException(result)

\* no request of the log is made again: one request per bot by the pool,
\* one clarification request per bot, and a pair is scored at most once per
\* round, the second round lying after the first clarification request
NoRetry ==
    /\ \A i, j \in 1..Len(sent) :
        (/\ sent[i].fn = "send_to_chatbot"
         /\ sent[j].fn = "send_to_chatbot"
         /\ sent[i].via = sent[j].via
         /\ sent[i].evaluator = sent[j].evaluator) => i = j
    /\ \A i, j \in 1..Len(sent) :
        (/\ i < j
         /\ sent[i].fn = "evaluate_response"
         /\ sent[j].fn = "evaluate_response"
         /\ sent[i].evaluator = sent[j].evaluator
         /\ sent[i].subject = sent[j].subject)
            => /\ \E m \in (i + 1)..(j - 1) : sent[m].fn = "send_to_chatbot"
               /\ \A m \in (j + 1)..Len(sent) :
                    ~(/\ sent[m].fn = "evaluate_response"
                      /\ sent[m].evaluator = sent[j].evaluator
                      /\ sent[m].subject = sent[j].subject)

\* the requests of a run of n bots: n answers, n(n-1) scores, n
\* clarifications, n(n-1) scores
MostRequests == 2 * Len(bots) * Len(bots)

\* C17: when every network call ends, every run of interact_between_bots
\* reaches its terminal state and hands the caller one answer or a
\* failure, after finitely many requests none of which is made again.
C17_TerminatesWithoutRetry ==
    /\ <>[](Terminal /\ Handed)
    /\ [](NoRetry /\ Len(sent) <= MostRequests)

\* a run of two bots returned an answer although the initial request of B
\* and a scoring call failed on the way
C17_Witness ==
    /\ pc = "done"
    /\ Len(bots) = 2
    /\ responses["B"] = Sentinel
    /\ wire["B"].net = "conn"
    /\ \E b \in Keys : result = clarifications[b]
    /\ Len(sent) = MostRequests

\* the bots whose credential request r carries
KeyOwners(r) == {b \in Keys : r.key = API_KEYS(b)}

\* the bots whose endpoint request r is posted to
UrlOwners(r) == {b \in Keys : r.url = Url(b)}

\* C18: in every phase a request that carries the credential of a bot is
\* posted to the endpoint of that same bot, and a scoring request for
\* (evaluator, subject) carries the evaluator's credential to the
\* evaluator's endpoint.
C18_KeyGoesToItsOwnEndpoint ==
    \A i \in 1..Len(sent) :
        /\ KeyOwners(sent[i]) # {}
        /\ KeyOwners(sent[i]) = UrlOwners(sent[i])
        /\ sent[i].fn = "evaluate_response" =>
            /\ sent[i].subject \in Keys \ {sent[i].evaluator}
            /\ KeyOwners(sent[i]) = {sent[i].evaluator}

\* a finished run whose log holds a request of each phase, among them the
\* scoring of B's answer by A with A's key at A's URL
C18_Witness ==
    /\ pc = "done"
    /\ \E i \in RequestsOf("evaluate_response", "run") :
        /\ sent[i].evaluator = "A"
        /\ sent[i].subject = "B"
        /\ sent[i].key = API_KEYS("A")
        /\ sent[i].url = Url("A")
    /\ \E i \in RequestsOf("send_to_chatbot", "run") :
        sent[i].key = API_KEYS("B") /\ sent[i].url = Url("B")
    /\ \E i \in RequestsOf("send_to_chatbot", "pool") :
        sent[i].key = API_KEYS("B") /\ sent[i].url = Url("B")

====
